---- MODULE Spec2Model ----
(***************************************************************************)
(* codex-companion: a localhost reverse proxy that forwards each client    *)
(* request to an upstream through one account of a pool.                   *)
(*                                                                         *)
(* Modelled here: the account table (internal/account), the token refresh  *)
(* gate (internal/auth), Scheduler.Next and the Reactivator                *)
(* (internal/scheduler), the request log (internal/log) and the proxy      *)
(* handler's retry ladder and per-kind rewrite (internal/proxy).           *)
(*                                                                         *)
(* Time is counted in abstract ticks; durations keep their order           *)
(* (Minute < Hour).  Strings that the code inspects by prefix (URL paths)  *)
(* are sequences of tokens, so HasPrefix and TrimPrefix are computed.      *)
(***************************************************************************)
EXTENDS Integers, Sequences, FiniteSets, TLC

VARIABLES
    now,        \* the wall clock (time.Now)
    accounts,   \* the accounts table: id -> row
    logs,       \* the logs table, in insertion (id) order
    mu,         \* Scheduler.mu: NoHolder when free, else the request holding it
    nx,         \* the locals of the call of Next that holds mu
    req,        \* per request: what the client sent
    h,          \* per request: the locals of ServeHTTP
    resp,       \* per request: the responses written to the client
    rq,         \* Reactivator: ids still to reactivate in the running pass
    ra,         \* Reactivator: whether its ctx is done, whether it has returned
    seq,        \* the accounts table: the largest id given so far (AUTOINCREMENT)
    adm,        \* per admin client: the call of the account manager under way
    page        \* the last answer of the log store's List

vars == <<now, accounts, logs, mu, nx, req, h, resp, rq, ra, seq, adm, page>>

(***************************************************************************)
(* Bounds of the model                                                     *)
(***************************************************************************)
MaxTime == 4          \* the clock runs from 1 to MaxTime
NumReqs == 2          \* client requests (each served once)
MaxPriority == 2      \* priorities are drawn from 1..MaxPriority
MaxAccounts == 2      \* the pool holds accounts 1..n for some n <= MaxAccounts
NumAdmins == 2        \* callers of the account manager (each makes any number of calls)
MaxSeq == 2           \* accounts ever inserted into the table in a run of the manager
MaxLimit == 3         \* the log store's List is called with n and offset in 0..MaxLimit

(***************************************************************************)
(* Program constants                                                       *)
(***************************************************************************)
MaxAttempts == 3      \* for attempts := 0; attempts < 3; attempts++
Hour == 2             \* time.Hour, the exhaustion cooldown, in ticks
Minute == 1           \* time.Minute, the refresh skew, in ticks
ZeroTime == 0         \* the zero time.Time a NULL timestamp scans to
StatusTooManyRequests == 429
StatusNotFound == 404
StatusServiceUnavailable == 503
StatusBadGateway == 502
StatusBadRequest == 400

APIKeyAccount == "api_key"
ChatGPTAccount == "chatgpt"

UpstreamAPI == "https://api.openai.com"
UpstreamChatGPT == "https://chatgpt.com/backend-api/codex"

Reqs == 1..NumReqs
Admins == 1..NumAdmins
NoHolder == 0
NoCall == [pc |-> "idle", type |-> "", secret |-> <<>>]
NoHeader == <<>>
NoAccount == [ID |-> 0]
NoRequest == [id |-> 0]
NoResult == [id |-> 0, status |-> 0, body |-> <<>>]

(***************************************************************************)
(* Strings as token sequences                                              *)
(***************************************************************************)
HasPrefix(s, p) == Len(p) <= Len(s) /\ SubSeq(s, 1, Len(p)) = p

TrimPrefix(s, p) == IF HasPrefix(s, p) THEN SubSeq(s, Len(p) + 1, Len(s)) ELSE s

Bearer(secret) == <<"Bearer ", secret>>

(***************************************************************************)
(* Request bodies.  A body is its bytes: `kind` says what the bytes parse  *)
(* to, `fmt` tells the client's own formatting ("client") from the output  *)
(* of json.Marshal ("marshal"), `obj` is the decoded object (key -> value) *)
(* when the bytes are a JSON object.                                       *)
(***************************************************************************)
EmptyBody == [kind |-> "empty", fmt |-> "client", obj |-> <<>>]
GarbageBody == [kind |-> "garbage", fmt |-> "client", obj |-> <<>>]
NullBody == [kind |-> "null", fmt |-> "client", obj |-> <<>>]
ArrayBody == [kind |-> "array", fmt |-> "client", obj |-> <<>>]
ObjectBody(o) == [kind |-> "object", fmt |-> "client", obj |-> o]

ReasoningInclude == <<"reasoning.encrypted_content">>

\* json.Unmarshal(body, &m) with m a map[string]any: an object decodes into
\* the map; the literal null is accepted without error and leaves m nil;
\* anything else is an error.
Unmarshal(body) ==
    IF body.kind = "object" THEN [err |-> FALSE, nil |-> FALSE, m |-> body.obj]
    ELSE IF body.kind = "null" THEN [err |-> FALSE, nil |-> TRUE, m |-> <<>>]
    ELSE [err |-> TRUE, nil |-> TRUE, m |-> <<>>]

\* json.Marshal(m)
Marshal(m) == [kind |-> "object", fmt |-> "marshal", obj |-> m]

\* m[k] = v
MapSet(m, k, v) == [x \in DOMAIN m \cup {k} |-> IF x = k THEN v ELSE m[x]]

\* delete(m, k)
MapDelete(m, k) == [x \in DOMAIN m \ {k} |-> m[x]]

\* len(body) > 0 && json.Unmarshal(body, &m) == nil
Rewrites(body) == body.kind # "empty" /\ ~Unmarshal(body).err

\* m["store"] = ... on a nil map: a run-time panic (assignment to entry in nil map)
Panics(body) == Rewrites(body) /\ Unmarshal(body).nil

\* The body normalisation of one attempt (for a body that does not panic).
NormalizeBody(type, body) ==
    IF ~Rewrites(body) THEN body
    ELSE LET m == Unmarshal(body).m IN
         IF type = APIKeyAccount
         THEN Marshal(MapDelete(MapSet(m, "store", TRUE), "include"))
         ELSE Marshal(MapSet(MapSet(m, "store", FALSE), "include", ReasoningInclude))

(***************************************************************************)
(* Path admission                                                          *)
(***************************************************************************)
ForwardedPrefixes ==
    { <<"/v1", "/responses">>, <<"/v1", "/chat/completions">>, <<"/v1", "/models">> }

\* Faulty variant of Allowed: everything under /v1 is forwarded
AllowedUnderV1(path) == HasPrefix(path, <<"/v1">>)

Allowed(path) ==
    /\ ~HasPrefix(path, <<"/admin">>)
    /\ \E p \in ForwardedPrefixes : HasPrefix(path, p)

(***************************************************************************)
(* The upstream request of one attempt                                     *)
(***************************************************************************)
\* url.Parse fails on this base, so http.NewRequestWithContext returns an error
BadBaseURL == "%zz"

UpstreamBase(a) ==
    IF a.Type = APIKeyAccount
    THEN IF a.BaseURL # "" THEN a.BaseURL ELSE UpstreamAPI
    ELSE UpstreamChatGPT

\* Faulty variant of UpstreamPath: the client's path for both kinds
UpstreamPathVerbatim(a, path) == path

UpstreamPath(a, path) ==
    IF a.Type = APIKeyAccount THEN path ELSE TrimPrefix(path, <<"/v1">>)

UpstreamAuth(a) ==
    IF a.Type = APIKeyAccount THEN Bearer(a.APIKey) ELSE Bearer(a.AccessToken)

\* Faulty variant of UpstreamTenant: the Del of the API key branch is missing
UpstreamTenantNoDel(a, r) ==
    IF a.Type = ChatGPTAccount /\ a.AccountID # "" THEN <<a.AccountID>> ELSE r.tenant

\* req.Header = r.Header.Clone(), then Del / Set of chatgpt-account-id
UpstreamTenant(a, r) ==
    IF a.Type = APIKeyAccount THEN NoHeader
    ELSE IF a.AccountID # "" THEN <<a.AccountID>> ELSE r.tenant

\* Faulty variant of Outgoing: the client's Authorization is left in the
\* cloned header
OutgoingClientAuth(a, r) ==
    [ id     |-> a.ID,
      type   |-> a.Type,
      base   |-> UpstreamBase(a),
      path   |-> UpstreamPath(a, r.path),
      query  |-> r.query,
      auth   |-> r.auth,
      tenant |-> UpstreamTenant(a, r),
      body   |-> NormalizeBody(a.Type, r.body) ]

Outgoing(a, r) ==
    [ id     |-> a.ID,
      type   |-> a.Type,
      base   |-> UpstreamBase(a),
      path   |-> UpstreamPath(a, r.path),
      query  |-> r.query,
      auth   |-> UpstreamAuth(a),
      tenant |-> UpstreamTenant(a, r),
      body   |-> NormalizeBody(a.Type, r.body) ]

(***************************************************************************)
(* The accounts table (internal/account)                                   *)
(***************************************************************************)
Row(id, type, prio, key, base, rt, at, exp, tenant) ==
    [ ID |-> id, Type |-> type, Priority |-> prio,
      Exhausted |-> FALSE, ResetAt |-> ZeroTime,
      APIKey |-> key, BaseURL |-> base,
      RefreshToken |-> rt, AccessToken |-> at, TokenExpiresAt |-> exp,
      AccountID |-> tenant ]

\* A NULL in a text column that a query compares: api_key and refresh_token.
\* It equals no string, the empty one included.  (The other columns are only
\* ever read through List and Get, where a NULL scans to the zero value.)
NullString == <<"NULL">>

\* rows.Scan into sql.NullString, then `if x.Valid { a.X = x.String }`
ScanRow(r) ==
    [r EXCEPT !.APIKey = IF @ = NullString THEN <<>> ELSE @,
              !.RefreshToken = IF @ = NullString THEN <<>> ELSE @]

\* the row AddAPIKey inserts
APIKeyRow(id, prio, base) ==
    Row(id, APIKeyAccount, prio, <<"key", id>>, base, NullString, <<>>, ZeroTime, "")

\* the row AddChatGPT inserts; with exp # ZeroTime, after a first refresh
ChatGPTRow(id, prio, tenant, exp) ==
    Row(id, ChatGPTAccount, prio, NullString, "", <<"rt", id, 0>>,
        IF exp = ZeroTime THEN <<>> ELSE <<"at", id, 0>>, exp, tenant)

\* UPDATE accounts SET <every column> WHERE id=?
Update(accts, a) ==
    IF a.ID \in DOMAIN accts THEN [accts EXCEPT ![a.ID] = a] ELSE accts

\* Faulty variant of MarkExhausted: the flag is set, reset_at is not written
MarkExhaustedFlagOnly(accts, id, resetAt) ==
    IF id \in DOMAIN accts THEN [accts EXCEPT ![id].Exhausted = TRUE] ELSE accts

\* Faulty variant of MarkExhausted: the flag is flipped
MarkExhaustedFlips(accts, id, resetAt) ==
    IF id \in DOMAIN accts
    THEN [accts EXCEPT ![id].Exhausted = ~@, ![id].ResetAt = resetAt]
    ELSE accts

\* UPDATE accounts SET exhausted=1, reset_at=? WHERE id=?
MarkExhausted(accts, id, resetAt) ==
    IF id \in DOMAIN accts
    THEN [accts EXCEPT ![id].Exhausted = TRUE, ![id].ResetAt = resetAt]
    ELSE accts

\* UPDATE accounts SET exhausted=0, reset_at=NULL WHERE id=?
Reactivate(accts, id) ==
    IF id \in DOMAIN accts
    THEN [accts EXCEPT ![id].Exhausted = FALSE, ![id].ResetAt = ZeroTime]
    ELSE accts

\* SELECT ... ORDER BY priority, then sort.Slice by Priority: the rows in
\* ascending priority; neither fixes the order of rows of equal priority.
List(accts) ==
    LET n == Cardinality(DOMAIN accts) IN
    { [i \in 1..n |-> ScanRow(accts[f[i]])] :
        f \in { g \in [1..n -> DOMAIN accts] :
                  /\ \A i, j \in 1..n : i # j => g[i] # g[j]
                  /\ \A i, j \in 1..n : i < j => accts[g[i]].Priority <= accts[g[j]].Priority } }

(***************************************************************************)
(* The refresh gate (internal/auth) and the loop of Scheduler.Next         *)
(***************************************************************************)
\* Faulty variant of RefreshDue: the skew is an hour
RefreshDueWithinHour(a, t) == ~(a.TokenExpiresAt - t > Hour)

\* Refresh goes to the token endpoint unless time.Until(TokenExpiresAt) > time.Minute
RefreshDue(a, t) == ~(a.TokenExpiresAt - t > Minute)

\* Faulty variant of HeldOut: the flag alone, reset_at not looked at
HeldOutByFlag(a, n) == a.Exhausted

\* a.Exhausted && now.Before(a.ResetAt)
HeldOut(a, n) == a.Exhausted /\ n < a.ResetAt

\* The loop of Next from position i of the snapshot s, with Next's instant n
\* and the clock at t: it stops at the first account that is not held out,
\* either to return it ("ret") or to exchange its refresh token first
\* ("exchange"); "none" when the snapshot is used up.
RECURSIVE Scan(_, _, _, _)
Scan(s, i, n, t) ==
    IF i > Len(s) THEN [k |-> "none", i |-> i]
    ELSE IF HeldOut(s[i], n) THEN Scan(s, i + 1, n, t)
    ELSE IF s[i].Type = ChatGPTAccount /\ RefreshDue(s[i], t)
         THEN [k |-> "exchange", i |-> i]
         ELSE [k |-> "ret", i |-> i]

(***************************************************************************)
(* The proxy handler (internal/proxy), one process per client request.     *)
(* h[q].pc tells where ServeHTTP stands:                                   *)
(*   "start"    it has not run yet                                         *)
(*   "next"     about to call Scheduler.Next (waiting for Scheduler.mu)    *)
(*   "exchange" inside Next, holding mu, waiting for the token endpoint    *)
(*   "sent"     the upstream request of this attempt is in flight          *)
(*   "done"     it returned                                                *)
(*   "panic"    it was aborted by a run-time panic                         *)
(* h[q].account and h[q].out are the account and the upstream request of   *)
(* the attempt under way, h[q].lastNext what its call of Next read and     *)
(* returned, h[q].prev the outcome of the attempt before it.  The locals   *)
(* go out of scope when ServeHTTP returns.                                 *)
(***************************************************************************)
\* Faulty variant of LastAttempt: the ladder gives up one attempt early
SecondAttempt == MaxAttempts - 2

LastAttempt == 2      \* if attempts == 2 / if attempts < 2

UpstreamStatuses == {200, 429, 500}

Written(status, origin, body) == [status |-> status, origin |-> origin, body |-> body]

\* no answer of the token endpoint
NoReply == [rotate |-> FALSE, expires |-> 0]

\* what a call of Next read and returned; `reply` is the answer of the token
\* endpoint when the call returns an account it has just refreshed
NextRecord(s, n, f, id, err, np) ==
    [snap |-> s, now |-> n, failed |-> f, id |-> id, err |-> err, posts |-> np,
     reply |-> NoReply]

NotCalled == NextRecord(<<>>, 0, {}, 0, "not called", 0)

NoNext == [snap |-> <<>>, idx |-> 0, now |-> 0, failed |-> {}, posts |-> 0]

Idle ==
    [ pc |-> "start", attempts |-> 0, account |-> NoAccount,
      out |-> NoRequest, prev |-> NoResult, lastNext |-> NotCalled ]

InFlight(q) == h[q].pc \in {"next", "exchange", "sent"}

Finished(q) == h[q].pc \in {"done", "panic"}

\* ServeHTTP writes `status` with `body` and returns
Return(q, status, origin, body, l) ==
    /\ h' = [h EXCEPT ![q] = [Idle EXCEPT !.pc = "done", !.lastNext = l]]
    /\ resp' = [resp EXCEPT ![q] = Append(@, Written(status, origin, body))]

\* the `continue` of the retry loop after an attempt that ended with `status`:
\* attempts++, then the loop test; a handler that leaves the loop returns
\* without having written anything, which net/http sends as an empty 200
Continue(q, status) ==
    IF h[q].attempts + 1 < MaxAttempts
    THEN /\ h' = [h EXCEPT ![q] = [Idle EXCEPT
                     !.pc = "next",
                     !.attempts = h[q].attempts + 1,
                     !.prev = [id |-> h[q].account.ID, status |-> status, body |-> <<>>]]]
         /\ UNCHANGED resp
    ELSE Return(q, 200, "implicit", <<>>, NotCalled)

\* ServeHTTP from the return of Next with account a to h.Client.Do(req)
Attempt(q, a, l) ==
    IF Panics(req[q].body)
    THEN /\ h' = [h EXCEPT ![q] = [Idle EXCEPT !.pc = "panic", !.lastNext = l]]
         /\ UNCHANGED resp
    ELSE IF UpstreamBase(a) = BadBaseURL
    THEN Return(q, StatusBadRequest, "proxy", <<>>, l)
    ELSE /\ h' = [h EXCEPT ![q].pc = "sent", ![q].account = a,
                           ![q].out = Outgoing(a, req[q]), ![q].lastNext = l]
         /\ UNCHANGED resp

\* The loop of Next from position i (defer s.mu.Unlock() when it returns), and
\* what ServeHTTP does with its result.
NextFrom(q, s, i, n, f, np) ==
    LET r == Scan(s, i, n, now) IN
    IF r.k = "exchange"
    THEN /\ mu' = q
         /\ nx' = [snap |-> s, idx |-> r.i, now |-> n, failed |-> f, posts |-> np]
         /\ h' = [h EXCEPT ![q].pc = "exchange"]
         /\ UNCHANGED resp
    ELSE IF r.k = "ret"
    THEN /\ mu' = NoHolder
         /\ nx' = NoNext
         /\ Attempt(q, s[r.i], NextRecord(s, n, f, s[r.i].ID, "", np))
    ELSE /\ mu' = NoHolder
         /\ nx' = NoNext
         /\ Return(q, StatusServiceUnavailable, "proxy", <<>>,
                   NextRecord(s, n, f, 0, "no accounts available", np))

\* ServeHTTP: the path filter and the reading of the body.  Requests are
\* numbered in the order in which their handlers start.
Start(q) ==
    /\ h[q].pc = "start"
    /\ \A p \in Reqs : p < q => h[p].pc # "start"
    /\ IF Allowed(req[q].path)
       THEN /\ h' = [h EXCEPT ![q].pc = "next"]
            /\ UNCHANGED resp
       ELSE Return(q, StatusNotFound, "proxy", <<>>, NotCalled)
    /\ UNCHANGED <<page, now, accounts, logs, mu, nx, req, rq, ra, seq, adm>>

\* Next: s.mu.Lock(), s.mgr.List, and the loop up to its first token exchange
NextEnter(q) ==
    /\ h[q].pc = "next"
    /\ mu = NoHolder
    /\ \E s \in List(accounts) : NextFrom(q, s, 1, now, {}, 0)
    /\ UNCHANGED <<page, now, accounts, logs, req, rq, ra, seq, adm>>

\* Next: s.mgr.List returns an error
NextListError(q) ==
    /\ h[q].pc = "next"
    /\ mu = NoHolder
    /\ Return(q, StatusServiceUnavailable, "proxy", <<>>,
              NextRecord(<<>>, now, {}, 0, "list failed", 0))
    /\ UNCHANGED <<page, now, accounts, logs, mu, nx, req, rq, ra, seq, adm>>

\* what the token endpoint may answer: whether it rotates the refresh token,
\* and expires_in
TokenReplies == [rotate : BOOLEAN, expires : {1, 4}]

\* The token endpoint never answers with a token it gave before: the access
\* tokens of account id are <<"at", id, 0>>, <<"at", id, 1>>, ...
Generation(a) == IF a.AccessToken = <<>> THEN 0 ELSE a.AccessToken[3]

\* Faulty variant of Refreshed: the refresh token is overwritten even by an
\* empty one
RefreshedAlwaysRotates(a, token, rt, expiresIn, t) ==
    [a EXCEPT !.AccessToken = token, !.RefreshToken = rt, !.TokenExpiresAt = t + expiresIn]

\* auth.Refresh after a successful ExchangeRefreshToken: the account is
\* changed in place, written back with mgr.Update, and Next returns it.
Refreshed(a, token, rt, expiresIn, t) ==
    [a EXCEPT !.AccessToken = token,
              !.RefreshToken = IF rt # <<>> THEN rt ELSE @,
              !.TokenExpiresAt = t + expiresIn]

ExchangeOK(q, replies) ==
    /\ h[q].pc = "exchange"
    /\ \E r \in replies :
         LET old == nx.snap[nx.idx]
             g == Generation(old) + 1
             a == Refreshed(old, <<"at", old.ID, g>>,
                            IF r.rotate THEN <<"rt", old.ID, g>> ELSE <<>>,
                            r.expires, now)
         IN /\ accounts' = Update(accounts, a)
            /\ mu' = NoHolder
            /\ nx' = NoNext
            /\ Attempt(q, a, [NextRecord(nx.snap, nx.now, nx.failed, a.ID, "", nx.posts + 1)
                                 EXCEPT !.reply = r])
    /\ UNCHANGED <<page, now, logs, req, rq, ra, seq, adm>>

\* Faulty variant of ExchangeFail: Next gives up at the first failing refresh
ExchangeFailStops(q) ==
    /\ h[q].pc = "exchange"
    /\ mu' = NoHolder
    /\ nx' = NoNext
    /\ Return(q, StatusServiceUnavailable, "proxy", <<>>,
              NextRecord(nx.snap, nx.now, nx.failed \cup {nx.snap[nx.idx].ID}, 0,
                         "no accounts available", nx.posts + 1))
    /\ UNCHANGED <<page, now, accounts, logs, req, rq, ra, seq, adm>>

\* Faulty variant of ExchangeFail: Next returns on the failing refresh without
\* unlocking
ExchangeFailHoldsLock(q) ==
    /\ h[q].pc = "exchange"
    /\ Return(q, StatusServiceUnavailable, "proxy", <<>>,
              NextRecord(nx.snap, nx.now, nx.failed \cup {nx.snap[nx.idx].ID}, 0,
                         "no accounts available", nx.posts + 1))
    /\ UNCHANGED <<page, now, accounts, logs, mu, nx, req, rq, ra, seq, adm>>

\* ExchangeRefreshToken fails: Refresh returns the error, Next skips the account
ExchangeFail(q) ==
    /\ h[q].pc = "exchange"
    /\ NextFrom(q, nx.snap, nx.idx + 1, nx.now,
                nx.failed \cup {nx.snap[nx.idx].ID}, nx.posts + 1)
    /\ UNCHANGED <<page, now, accounts, logs, req, rq, ra, seq, adm>>

\* Faulty variant of LogEntry: the entry names no account
LogEntryNoAccount(q, a, status, err, body) ==
    [ req |-> q, AccountID |-> 0, URL |-> <<req[q].path, req[q].query>>,
      ReqBody |-> req[q].body, RespBody |-> body, Status |-> status, Error |-> err ]

\* Faulty variant of LogEntry: the body logged is the one sent upstream
LogEntrySentBody(q, a, status, err, body) ==
    [ req |-> q, AccountID |-> a.ID, URL |-> <<req[q].path, req[q].query>>,
      ReqBody |-> h[q].out.body, RespBody |-> body, Status |-> status, Error |-> err ]

\* h.Log.Insert(ctx, &log.RequestLog{...}); `req` tells the entries of one
\* client request from those of another
LogEntry(q, a, status, err, body) ==
    [ req |-> q, AccountID |-> a.ID, URL |-> <<req[q].path, req[q].query>>,
      ReqBody |-> req[q].body, RespBody |-> body, Status |-> status, Error |-> err ]

\* Insert: INSERT INTO logs, the id is the position
Insert(l, entry) == Append(l, entry)

\* Faulty variant of StoreList: ORDER BY id, oldest first
StoreListOldestFirst(l, n, offset) ==
    LET skip == IF offset < 0 THEN 0 ELSE offset
        rest == IF Len(l) < skip THEN 0 ELSE Len(l) - skip
        cnt  == IF n < 0 \/ n > rest THEN rest ELSE n
    IN [k \in 1..cnt |-> [ID |-> skip + k, entry |-> l[skip + k]]]

\* List: SELECT ... FROM logs ORDER BY id DESC LIMIT n OFFSET offset.  A
\* negative LIMIT puts no bound on the rows, a negative OFFSET skips none.
StoreList(l, n, offset) ==
    LET skip == IF offset < 0 THEN 0 ELSE offset
        rest == IF Len(l) < skip THEN 0 ELSE Len(l) - skip
        cnt  == IF n < 0 \/ n > rest THEN rest ELSE n
    IN [k \in 1..cnt |-> [ID |-> Len(l) - skip - k + 1, entry |-> l[Len(l) - skip - k + 1]]]

\* no call of List yet
NoPage == [called |-> FALSE, n |-> 0, offset |-> 0, total |-> 0, rows |-> <<>>]

\* a caller of List(ctx, n, offset); `total` is the number of entries the
\* table held when the query ran
CallStoreList(n, offset) ==
    /\ page' = [called |-> TRUE, n |-> n, offset |-> offset, total |-> Len(logs),
                rows |-> StoreList(logs, n, offset)]
    /\ UNCHANGED <<now, accounts, logs, mu, nx, req, h, resp, rq, ra, seq, adm>>

\* h.Client.Do returns an error
UpstreamError(q) ==
    /\ h[q].pc = "sent"
    /\ logs' = Insert(logs, LogEntry(q, h[q].account, 0, "upstream error", <<>>))
    /\ IF h[q].attempts = LastAttempt
       THEN Return(q, StatusBadGateway, "proxy", <<>>, NotCalled)
       ELSE Continue(q, 0)
    /\ UNCHANGED <<page, now, accounts, mu, nx, req, rq, ra, seq, adm>>

\* h.Client.Do returns a response with one of `statuses`; every response has
\* a body of its own, <<"body", request, attempt, status>>
UpstreamResponse(q, statuses) ==
    /\ h[q].pc = "sent"
    /\ \E status \in statuses :
         LET body == <<"body", q, h[q].attempts, status>> IN
         /\ logs' = Insert(logs, LogEntry(q, h[q].account, status, "", body))
         /\ accounts' = IF status = StatusTooManyRequests
                        THEN MarkExhausted(accounts, h[q].account.ID, now + Hour)
                        ELSE accounts
         /\ IF status = StatusTooManyRequests /\ h[q].attempts < LastAttempt
            THEN Continue(q, status)
            ELSE Return(q, status, "upstream", body, NotCalled)
    /\ UNCHANGED <<page, now, mu, nx, req, rq, ra, seq, adm>>

(***************************************************************************)
(* The Reactivator (internal/scheduler).  ra.done: the ctx given to        *)
(* StartReactivator is done; ra.returned: the goroutine has returned.  Once *)
(* ctx is done the calls of the account manager made with it fail: List    *)
(* returns an error and the pass ends, Reactivate changes nothing.         *)
(***************************************************************************)
Ticking == [done |-> FALSE, returned |-> FALSE]

\* Faulty variant of ReactivationDue: an account is left alone for another hour
\* after its reset_at
ReactivationDueAfterHour(a, t) == a.Exhausted /\ t > a.ResetAt + Hour

\* a.Exhausted && now.After(a.ResetAt)
ReactivationDue(a, t) == a.Exhausted /\ t > a.ResetAt

RECURSIVE DueIds(_, _)
DueIds(s, t) ==
    IF s = <<>> THEN <<>>
    ELSE (IF ReactivationDue(Head(s), t) THEN <<Head(s).ID>> ELSE <<>>) \o DueIds(Tail(s), t)

\* Faulty variant of ReactivateList: the pass starts by taking Scheduler.mu
ReactivateListLocked ==
    /\ mu = NoHolder
    /\ rq = <<>>
    /\ ~ra.done
    /\ \E s \in List(accounts) : rq' = DueIds(s, now)
    /\ rq' # <<>>
    /\ UNCHANGED <<page, now, accounts, logs, mu, nx, req, h, resp, ra, seq, adm>>

\* a tick of the ticker: reactivate() lists the accounts and takes `now`
ReactivateList ==
    /\ rq = <<>>
    /\ ~ra.done
    /\ \E s \in List(accounts) : rq' = DueIds(s, now)
    /\ rq' # <<>>
    /\ UNCHANGED <<page, now, accounts, logs, mu, nx, req, h, resp, ra, seq, adm>>

\* the next s.mgr.Reactivate(ctx, a.ID) of the running pass
ReactivateOne ==
    /\ rq # <<>>
    /\ accounts' = IF ra.done THEN accounts ELSE Reactivate(accounts, Head(rq))
    /\ rq' = Tail(rq)
    /\ UNCHANGED <<page, now, logs, mu, nx, req, h, resp, ra, seq, adm>>

\* the ctx given to StartReactivator is cancelled
Cancel ==
    /\ ~ra.done
    /\ ra' = [ra EXCEPT !.done = TRUE]
    /\ UNCHANGED <<page, now, accounts, logs, mu, nx, req, h, resp, rq, seq, adm>>

\* Faulty variant of ReactivatorReturns: the loop waits for the ticker alone
ReactivatorKeepsTicking ==
    /\ ra.done /\ ~ra.returned
    /\ rq = <<>>
    /\ UNCHANGED vars

\* case <-ctx.Done(): return, taken between two passes
ReactivatorReturns ==
    /\ ra.done /\ ~ra.returned
    /\ rq = <<>>
    /\ ra' = [ra EXCEPT !.returned = TRUE]
    /\ UNCHANGED <<page, now, accounts, logs, mu, nx, req, h, resp, rq, seq, adm>>

(***************************************************************************)
(* The clock.  A tick is long against a handler run (every upstream call   *)
(* is cut off after 60 s): the clock does not tick while a request is in   *)
(* flight.  The Reactivator's pass is not so bound.                        *)
(***************************************************************************)
Tick ==
    /\ now < MaxTime
    /\ \A q \in Reqs : ~InFlight(q)
    /\ now' = now + 1
    /\ UNCHANGED <<page, accounts, logs, mu, nx, req, h, resp, rq, ra, seq, adm>>

(***************************************************************************)
(* Initial states: a pool and the client requests                          *)
(***************************************************************************)
\* token_expires_at of a pool account whose token is not yet due
FreshUntil == MaxTime

ClientRequest(path, query, body, tenant) ==
    [ path |-> path, query |-> query, body |-> body,
      auth |-> Bearer(<<"client">>), tenant |-> tenant ]

\* the pools of accounts 1..n, n <= MaxAccounts, account i being one of rows[i]
PoolsOf(rows) ==
    UNION { { f \in [1..n -> UNION {rows[i] : i \in 1..n}] : \A i \in 1..n : f[i] \in rows[i] } :
            n \in 0..MaxAccounts }

\* Next and the handler never look at the value of an id, so of two pools that
\* differ by a renaming of the ids one is enough: account 1 takes every
\* priority, the others the first.
Priorities(id) == IF id = 1 THEN 1..MaxPriority ELSE {1}

\* The concurrent system: accounts of both kinds and all priorities, every
\* request a plain JSON call of /v1/responses.
RowsConcurrent ==
    [ id \in 1..MaxAccounts |->
        { APIKeyRow(id, p, "") : p \in Priorities(id) }
        \cup { ChatGPTRow(id, p, "T", e) : p \in Priorities(id), e \in {ZeroTime, FreshUntil} } ]

PlainRequest == ClientRequest(<<"/v1", "/responses">>, "", ObjectBody([store |-> TRUE]), NoHeader)

InitCommon ==
    /\ now = 1
    /\ logs = <<>>
    /\ mu = NoHolder
    /\ nx = NoNext
    /\ h = [q \in Reqs |-> Idle]
    /\ resp = [q \in Reqs |-> <<>>]
    /\ rq = <<>>
    /\ ra = Ticking
    /\ adm = [c \in Admins |-> NoCall]
    /\ page = NoPage

Init ==
    /\ InitCommon
    /\ accounts \in PoolsOf(RowsConcurrent)
    /\ seq = Cardinality(DOMAIN accounts)
    /\ req = [q \in Reqs |-> PlainRequest]

Next ==
    \/ \E q \in Reqs : Start(q)
    \/ \E q \in Reqs : NextEnter(q)
    \/ \E q \in Reqs : NextListError(q)
    \/ \E q \in Reqs : ExchangeOK(q, {[rotate |-> FALSE, expires |-> 4]})
    \/ \E q \in Reqs : ExchangeFail(q)
    \/ \E q \in Reqs : UpstreamResponse(q, {200, 429})
    \/ ReactivateList
    \/ ReactivateOne
    \/ Tick

Spec == Init /\ [][Next]_vars

(***************************************************************************)
(* One handler run on its own: a client request of any shape against a     *)
(* pool of any shape, every upstream and token endpoint answer, transport  *)
(* errors and listing errors.                                              *)
(***************************************************************************)
RowsOne ==
    [ id \in 1..MaxAccounts |->
        { APIKeyRow(id, 1, b) : b \in {"", "https://alt.example", BadBaseURL} }
        \cup { ChatGPTRow(id, 1, t, e) : t \in {"", "T"}, e \in {ZeroTime, FreshUntil} } ]

Targets ==
    { <<p, "">> : p \in { <<"/v1", "/responses">>, <<"/v1", "/chat/completions">>,
                          <<"/v1", "/models">>, <<"/v1", "/responses", "/compact">>,
                          <<"/v1", "/other">>, <<"/other">>, <<"/admin", "/api">>,
                          <<"/admin", "/v1", "/responses">> } }
    \cup { << <<"/v1", "/models">>, "limit=1" >> }

Bodies ==
    { EmptyBody, GarbageBody, NullBody, ArrayBody,
      ObjectBody([store |-> TRUE]),
      ObjectBody([store |-> FALSE, include |-> <<"x">>, model |-> "m"]),
      ObjectBody([model |-> "m"]) }

Tenants == { NoHeader, <<"client-tenant">> }

ClientRequests ==
    { ClientRequest(t[1], t[2], ObjectBody([store |-> TRUE]), NoHeader) : t \in Targets }
    \cup { ClientRequest(<<"/v1", "/responses">>, "", b, t) : b \in Bodies, t \in Tenants }

InitOne ==
    /\ InitCommon
    /\ accounts \in PoolsOf(RowsOne)
    /\ seq = Cardinality(DOMAIN accounts)
    /\ req \in [Reqs -> ClientRequests]
    /\ \A q \in Reqs : q # 1 => req[q] = PlainRequest

NextOne ==
    \/ Start(1)
    \/ NextEnter(1)
    \/ NextListError(1)
    \/ ExchangeOK(1, TokenReplies)
    \/ ExchangeFail(1)
    \/ UpstreamError(1)
    \/ UpstreamResponse(1, UpstreamStatuses)

SpecOne == InitOne /\ [][NextOne]_vars

(***************************************************************************)
(* The token refresh under concurrency: requests that are answered 200,    *)
(* the clock, and a token endpoint that rotates the refresh token or not   *)
(* and gives tokens that live long or not at all (expires_in absent or     *)
(* shorter than the skew).                                                 *)
(***************************************************************************)
RefreshReplies == [rotate : BOOLEAN, expires : {0, MaxTime}]

NextRefresh ==
    \/ \E q \in Reqs : Start(q)
    \/ \E q \in Reqs : NextEnter(q)
    \/ \E q \in Reqs : ExchangeOK(q, RefreshReplies)
    \/ \E q \in Reqs : ExchangeFail(q)
    \/ \E q \in Reqs : UpstreamResponse(q, {200})
    \/ Tick

SpecRefresh == Init /\ [][NextRefresh]_vars

(***************************************************************************)
(* The concurrent system with its scheduling.  The ticker of               *)
(* StartReactivator fires every interval until the process ends, so a pass *)
(* that has something to do is started and each of its calls is made; the  *)
(* clock goes on; and a handler that is in flight takes its next step: the *)
(* mutex is released by whoever holds it, and the token endpoint and the   *)
(* upstream answer or the call is cut off.  Nothing obliges a client to    *)
(* send a request.  The store and the token endpoint are taken to work.    *)
(***************************************************************************)
HandlerStep(q) ==
    \/ NextEnter(q)
    \/ ExchangeOK(q, {[rotate |-> FALSE, expires |-> 4]})
    \/ UpstreamResponse(q, {200, 429})

NextLive ==
    \/ \E q \in Reqs : Start(q)
    \/ \E q \in Reqs : HandlerStep(q)
    \/ ReactivateList
    \/ ReactivateOne
    \/ Tick

Fairness ==
    /\ WF_vars(Tick)
    /\ WF_vars(ReactivateList)
    /\ WF_vars(ReactivateOne)
    /\ \A q \in Reqs : WF_vars(HandlerStep(q))

SpecLive == Init /\ [][NextLive]_vars /\ Fairness

(***************************************************************************)
(* The account manager (internal/account) on its own, called by           *)
(* concurrent callers: the admin surface (POST, PUT and DELETE of          *)
(* /admin/api/accounts), the proxy handler (MarkExhausted), the Reactivator *)
(* (Reactivate) and Refresh (Update).  Every call is one SQL statement,    *)
(* but for the adds, which SELECT and then INSERT.  adm[c] is the add of    *)
(* caller c between its two statements ("insert"), or the add that has     *)
(* just returned ErrDuplicate to c ("duplicate"), or no call.              *)
(***************************************************************************)
\* the secrets callers give to the adds: none and one
Secrets == {<<>>, <<"k">>}

Adding(pc, type, secret) == [pc |-> pc, type |-> type, secret |-> secret]

\* caller c is free to make a call
Free(c) == adm[c].pc \in {"idle", "duplicate"}

\* SELECT id FROM accounts WHERE api_key=? / WHERE refresh_token=? finds a row
Found(type, secret) ==
    \E id \in DOMAIN accounts :
        IF type = APIKeyAccount THEN accounts[id].APIKey = secret
                                ELSE accounts[id].RefreshToken = secret

\* the row the INSERT of AddAPIKey or AddChatGPT writes
Inserted(id, type, secret) ==
    IF type = APIKeyAccount
    THEN Row(id, APIKeyAccount, 1, secret, "", NullString, <<>>, ZeroTime, "")
    ELSE Row(id, ChatGPTAccount, 1, NullString, "", secret, <<>>, ZeroTime, "")

\* AddAPIKey, AddChatGPT: the SELECT for a duplicate
AddSelect(c, type, secret) ==
    /\ Free(c)
    /\ adm' = [adm EXCEPT ![c] =
                 Adding(IF Found(type, secret) THEN "duplicate" ELSE "insert", type, secret)]
    /\ UNCHANGED <<page, now, accounts, logs, mu, nx, req, h, resp, rq, ra, seq>>

\* AddAPIKey, AddChatGPT: the INSERT and res.LastInsertId()
AddInsert(c) ==
    /\ adm[c].pc = "insert"
    /\ seq < MaxSeq
    /\ seq' = seq + 1
    /\ accounts' = [id \in DOMAIN accounts \cup {seq + 1} |->
                       IF id = seq + 1 THEN Inserted(id, adm[c].type, adm[c].secret)
                                       ELSE accounts[id]]
    /\ adm' = [adm EXCEPT ![c] = NoCall]
    /\ UNCHANGED <<page, now, logs, mu, nx, req, h, resp, rq, ra>>

\* the zero Account that json.Decode fills from the body of a PUT
ZeroAccount == Row(0, APIKeyAccount, 1, <<>>, "", <<>>, <<>>, ZeroTime, "")

\* The accounts callers give to Update for id: the row as List or Get read
\* it (a round trip, as Refresh and an admin client make it), the same with
\* the exhausted flag set or with another secret, and the document that
\* names the secret and the priority only.
Documents(id) ==
    LET read == IF id \in DOMAIN accounts THEN {ScanRow(accounts[id])} ELSE {}
    IN  read
        \cup { [a EXCEPT !.Exhausted = TRUE] : a \in read }
        \cup { [a EXCEPT !.APIKey = <<"k">>] : a \in read }
        \cup { [ZeroAccount EXCEPT !.ID = id, !.APIKey = <<"k">>] }

\* Manager.Update, by the admin surface (a.ID = id of the path) or by Refresh
CallUpdate(c, id) ==
    /\ Free(c)
    /\ \E a \in Documents(id) :
         /\ accounts' = Update(accounts, a)
         /\ adm' = [adm EXCEPT ![c] = NoCall]
    /\ UNCHANGED <<page, now, logs, mu, nx, req, h, resp, rq, ra, seq>>

\* Manager.Delete: DELETE FROM accounts WHERE id=?
CallDelete(c, id) ==
    /\ Free(c)
    /\ accounts' = [i \in DOMAIN accounts \ {id} |-> accounts[i]]
    /\ adm' = [adm EXCEPT ![c] = NoCall]
    /\ UNCHANGED <<page, now, logs, mu, nx, req, h, resp, rq, ra, seq>>

\* Manager.MarkExhausted, by the proxy handler with now + time.Hour
CallMarkExhausted(c, id) ==
    /\ Free(c)
    /\ accounts' = MarkExhausted(accounts, id, now + Hour)
    /\ adm' = [adm EXCEPT ![c] = NoCall]
    /\ UNCHANGED <<page, now, logs, mu, nx, req, h, resp, rq, ra, seq>>

\* Manager.Reactivate, by the Reactivator
CallReactivate(c, id) ==
    /\ Free(c)
    /\ accounts' = Reactivate(accounts, id)
    /\ adm' = [adm EXCEPT ![c] = NoCall]
    /\ UNCHANGED <<page, now, logs, mu, nx, req, h, resp, rq, ra, seq>>

\* NewManager on an empty database
InitStore ==
    /\ InitCommon
    /\ accounts = <<>>
    /\ seq = 0
    /\ req = [q \in Reqs |-> PlainRequest]

NextStore ==
    \/ \E c \in Admins, type \in {APIKeyAccount, ChatGPTAccount}, secret \in Secrets :
          AddSelect(c, type, secret)
    \/ \E c \in Admins : AddInsert(c)
    \/ \E c \in Admins, id \in 1..MaxSeq : CallUpdate(c, id)
    \/ \E c \in Admins, id \in 1..MaxSeq : CallDelete(c, id)
    \/ \E c \in Admins, id \in 1..MaxSeq : CallMarkExhausted(c, id)
    \/ \E c \in Admins, id \in 1..MaxSeq : CallReactivate(c, id)

SpecStore == InitStore /\ [][NextStore]_vars

(***************************************************************************)
(* The scheduler mutex under contention: requests whose calls of Next take *)
(* every exit (an account, a listing error, no account, a failing          *)
(* refresh).  sync.Mutex hands the lock to a waiter that has waited long   *)
(* enough, the store answers the listing, the token endpoint and the       *)
(* upstream answer: a step of a handler that stays possible is taken.      *)
(***************************************************************************)
NextMutex ==
    \/ \E q \in Reqs : Start(q)
    \/ \E q \in Reqs : NextEnter(q)
    \/ \E q \in Reqs : NextListError(q)
    \/ \E q \in Reqs : ExchangeOK(q, {[rotate |-> FALSE, expires |-> 4]})
    \/ \E q \in Reqs : ExchangeFail(q)
    \/ \E q \in Reqs : UpstreamResponse(q, {200, 429})

FairnessMutex ==
    \A q \in Reqs :
        /\ WF_vars(NextEnter(q) \/ NextListError(q))
        /\ WF_vars(ExchangeOK(q, {[rotate |-> FALSE, expires |-> 4]}) \/ ExchangeFail(q))
        /\ WF_vars(UpstreamResponse(q, {200, 429}))

SpecMutex == Init /\ [][NextMutex]_vars /\ FairnessMutex

(***************************************************************************)
(* Clients with Authorization headers of their own: none, a token that no  *)
(* account has, and the key of account 1.                                  *)
(***************************************************************************)
ClientAuths == { NoHeader, Bearer(<<"client">>), Bearer(<<"key", 1>>) }

InitAuth ==
    /\ InitCommon
    /\ accounts \in PoolsOf(RowsConcurrent)
    /\ seq = Cardinality(DOMAIN accounts)
    /\ req \in [Reqs -> { [PlainRequest EXCEPT !.auth = x] : x \in ClientAuths }]

NextAuth ==
    \/ \E q \in Reqs : Start(q)
    \/ \E q \in Reqs : HandlerStep(q)

SpecAuth == InitAuth /\ [][NextAuth]_vars

(***************************************************************************)
(* ImportAuth (internal/webui): the import of auth.json into a pool, next  *)
(* to one client request.  adm[1] keeps what the last import read and      *)
(* returned.  The clock of the model spans far less than the 28 days a     *)
(* token stays fresh after last_refresh.                                   *)
(***************************************************************************)
\* auth.json as the official client writes it: tokens.refresh_token,
\* tokens.access_token and tokens.account_id, and last_refresh (ZeroTime when
\* the file has none, else an instant not after t)
AuthFiles(t) ==
    [ refresh : {<<>>, <<"rt", "file">>}, access : {<<>>, <<"at", "file">>},
      tenant : {"T"}, last : ZeroTime..t ]

Importing(pc, file, id) ==
    [pc |-> pc, type |-> ChatGPTAccount, secret |-> file.refresh, file |-> file, id |-> id]

\* ImportAuth: the file is decoded into a struct that has the fields
\* refresh_token and account_id only; an empty refresh token is an error; the
\* priority is that of the last account listed plus one, 0 in an empty pool;
\* then AddChatGPT(ctx, "imported", refreshToken, accountID, priority).
ImportAuth(file) ==
    /\ seq <= MaxAccounts
    /\ IF file.refresh = <<>>
       THEN /\ adm' = [adm EXCEPT ![1] = Importing("missing", file, 0)]
            /\ UNCHANGED <<accounts, seq>>
       ELSE IF Found(ChatGPTAccount, file.refresh)
       THEN /\ adm' = [adm EXCEPT ![1] = Importing("duplicate", file, 0)]
            /\ UNCHANGED <<accounts, seq>>
       ELSE \E l \in List(accounts) :
              LET priority == IF Len(l) > 0 THEN l[Len(l)].Priority + 1 ELSE 0
                  a == Row(seq + 1, ChatGPTAccount, priority, NullString, "",
                           file.refresh, <<>>, ZeroTime, file.tenant)
              IN /\ seq' = seq + 1
                 /\ accounts' = [id \in DOMAIN accounts \cup {seq + 1} |->
                                    IF id = seq + 1 THEN a ELSE accounts[id]]
                 /\ adm' = [adm EXCEPT ![1] = Importing("imported", file, seq + 1)]
    /\ UNCHANGED <<page, now, logs, mu, nx, req, h, resp, rq, ra>>

NextImport ==
    \/ \E file \in AuthFiles(now) : ImportAuth(file)
    \/ Start(1)
    \/ HandlerStep(1)
    \/ Tick

SpecImport == Init /\ [][NextImport]_vars

(***************************************************************************)
(* The request log: one client request whose attempts are logged, next to  *)
(* a caller of the log store's List.                                       *)
(***************************************************************************)
NextLogs ==
    \/ Start(1)
    \/ HandlerStep(1)
    \/ UpstreamError(1)
    \/ Tick
    \/ \E n \in 0..MaxLimit, offset \in 0..MaxLimit : CallStoreList(n, offset)

SpecLogs == Init /\ [][NextLogs]_vars

(***************************************************************************)
(* The Reactivator with a ctx that can be cancelled, next to one client    *)
(* request.  When ctx is done the select of the loop has the case          *)
(* <-ctx.Done() ready for good, and takes it.                              *)
(***************************************************************************)
NextCancel ==
    \/ Start(1)
    \/ HandlerStep(1)
    \/ ReactivateList
    \/ ReactivateOne
    \/ Tick
    \/ Cancel
    \/ ReactivatorReturns

SpecCancel == Init /\ [][NextCancel]_vars /\ Fairness /\ WF_vars(ReactivatorReturns)

(***************************************************************************)
(* Properties                                                              *)
(***************************************************************************)
\* the log entries of request q, oldest first
LogsOf(q) == SelectSeq(logs, LAMBDA e : e.req = q)

\* the step completes an upstream attempt of request q
AttemptEnds(q) == h[q].pc = "sent" /\ h'[q] # h[q]

\* the step is the return of a call of Next made by request q
NextReturns(q) == h[q].pc \in {"next", "exchange"} /\ h'[q].pc # "exchange" /\ h'[q] # h[q]

\* ServeHTTP of request q returns in this step
Returns(q) == h[q].pc # "done" /\ h'[q].pc = "done"

ProxyError(status) == <<Written(status, "proxy", <<>>)>>

\* the credential is not held out by exhaustion at the instant r.now, and no
\* token refresh of it failed in the call r
Usable(a, r) == ~(a.Exhausted /\ r.now < a.ResetAt) /\ a.ID \notin r.failed

\* C1: whenever a call of Scheduler.Next returned a credential, that credential
\* is one of the listed credentials that are not held out by exhaustion at the
\* instant of the call and whose token refresh did not fail, and none of those
\* has a smaller priority; whenever it returned the no-credentials error, no
\* listed credential was usable.
C1_NextReturnsMinPriority ==
    \A q \in Reqs :
        LET r == h[q].lastNext
            n == Len(r.snap)
        IN /\ r.err = "" =>
                \E i \in 1..n :
                    /\ r.snap[i].ID = r.id
                    /\ Usable(r.snap[i], r)
                    /\ \A j \in 1..n : Usable(r.snap[j], r) =>
                           r.snap[i].Priority <= r.snap[j].Priority
           /\ r.err = "no accounts available" =>
                \A j \in 1..n : ~Usable(r.snap[j], r)

\* a call of Next passed over an exhausted credential of smaller priority that
\* was held out, and returned another one
C1_Witness ==
    \E q \in Reqs :
        LET r == h[q].lastNext IN
        /\ h[q].pc = "sent"
        /\ r.err = ""
        /\ Len(r.snap) = 2
        /\ r.snap[1].Exhausted /\ r.now < r.snap[1].ResetAt
        /\ r.snap[1].Priority < r.snap[2].Priority
        /\ r.id = r.snap[2].ID

\* C2: when an attempt that is not the last is answered 429, the credential
\* used is exhausted in the store with reset_at = now + 1 hour before the
\* handler calls Next again; the attempt that follows a 429 uses another
\* credential; and a response that is not 429 goes to the client with its
\* status and body.
C2_RetryLadder ==
    [][\A q \in Reqs :
          /\ (AttemptEnds(q) /\ logs' # logs /\ h[q].attempts < MaxAttempts - 1
                /\ logs'[Len(logs')].Status = StatusTooManyRequests) =>
                /\ accounts'[h[q].account.ID].Exhausted
                /\ accounts'[h[q].account.ID].ResetAt = now + Hour
                /\ h'[q].pc = "next"
                /\ resp'[q] = resp[q]
          /\ (NextReturns(q) /\ h'[q].pc = "sent"
                /\ h[q].prev.status = StatusTooManyRequests) =>
                h'[q].account.ID # h[q].prev.id
          /\ (AttemptEnds(q) /\ logs' # logs
                /\ logs'[Len(logs')].Status \notin {0, StatusTooManyRequests}) =>
                resp'[q] = <<Written(logs'[Len(logs')].Status, "upstream",
                                     logs'[Len(logs')].RespBody)>>
    ]_vars

\* C3: the handler makes at most three upstream attempts per request and,
\* once it has ended, has written exactly one response, with status 404, 503,
\* 502, 400 or the status of the upstream.
C3_OneResponse ==
    \A q \in Reqs :
        /\ Len(LogsOf(q)) <= MaxAttempts
        /\ h[q].pc = "sent" => Len(LogsOf(q)) < MaxAttempts
        /\ Len(resp[q]) <= 1
        /\ Finished(q) =>
              /\ Len(resp[q]) = 1
              /\ \/ /\ resp[q][1].origin = "proxy"
                    /\ resp[q][1].status \in {StatusNotFound, StatusServiceUnavailable,
                                              StatusBadGateway, StatusBadRequest}
                 \/ /\ resp[q][1].origin = "upstream"
                    /\ LogsOf(q)[Len(LogsOf(q))].Status = resp[q][1].status

C5_NextFailure503 ==
    [][\A q \in Reqs :
          /\ (NextReturns(q) /\ h'[q].lastNext.err # "") =>
                /\ Returns(q)
                /\ resp'[q] = ProxyError(StatusServiceUnavailable)
                /\ logs' = logs
          /\ h[q].pc = "done" => (h'[q] = h[q] /\ resp'[q] = resp[q] /\ LogsOf(q)' = LogsOf(q))
          /\ (NextReturns(q) /\ DOMAIN accounts = {}) =>
                resp'[q] = ProxyError(StatusServiceUnavailable)
          /\ (Returns(q) /\ Cardinality(DOMAIN accounts) = 1 /\ LogsOf(q)' # <<>>
                /\ LogsOf(q)'[1].Status = StatusTooManyRequests) =>
                /\ resp'[q] = ProxyError(StatusServiceUnavailable)
                /\ Len(LogsOf(q)') = 1
                /\ accounts'[LogsOf(q)'[1].AccountID].Exhausted
    ]_vars

Admitted(path) ==
    /\ Len(path) >= 2
    /\ path[1] = "/v1"
    /\ path[2] \in {"/responses", "/chat/completions", "/models"}

\* C7: a request whose path is not admitted is answered 404 in one step that
\* calls neither Next nor the upstream and changes neither the accounts, the
\* log nor the mutex, and nothing is done for it afterwards; an admitted
\* request is never answered by this 404.
C7_NotAdmitted404 ==
    [][\A q \in Reqs :
          /\ (~Admitted(req[q].path) /\ h'[q] # h[q]) =>
                /\ h[q].pc = "start"
                /\ Returns(q)
                /\ h'[q].lastNext = NotCalled
                /\ resp'[q] = ProxyError(StatusNotFound)
                /\ accounts' = accounts
                /\ logs' = logs
                /\ mu' = mu
          /\ (~Admitted(req[q].path) /\ h'[q] = h[q]) =>
                (resp'[q] = resp[q] /\ LogsOf(q)' = <<>>)
          /\ (Admitted(req[q].path) /\ h[q].pc = "start" /\ h'[q] # h[q]) =>
                (h'[q].pc = "next" /\ resp'[q] = <<>>)
    ]_vars

\* a request for a path outside the forwarded prefixes was answered 404 while
\* the pool holds a credential
C7_Witness ==
    \E q \in Reqs :
        /\ req[q].path = <<"/v1", "/other">>
        /\ h[q].pc = "done"
        /\ resp[q] = ProxyError(StatusNotFound)
        /\ DOMAIN accounts # {}

C9_APIKeyRewrite ==
    \A q \in Reqs :
        (h[q].pc = "sent" /\ h[q].account.Type = APIKeyAccount) =>
            LET a == h[q].account
                o == h[q].out
                b == req[q].body
            IN /\ a.ID \in DOMAIN accounts /\ a.APIKey = accounts[a.ID].APIKey
               /\ o.base = (IF a.BaseURL = "" THEN "https://api.openai.com" ELSE a.BaseURL)
               /\ o.path = req[q].path
               /\ o.query = req[q].query
               /\ o.auth = <<"Bearer ", a.APIKey>>
               /\ o.tenant = NoHeader
               /\ b.kind = "object" =>
                     /\ o.body.kind = "object"
                     /\ "store" \in DOMAIN o.body.obj /\ o.body.obj["store"] = TRUE
                     /\ "include" \notin DOMAIN o.body.obj
                     /\ \A k \in DOMAIN b.obj \ {"store", "include"} :
                            k \in DOMAIN o.body.obj /\ o.body.obj[k] = b.obj[k]
                     /\ DOMAIN o.body.obj \subseteq DOMAIN b.obj \cup {"store"}

\* an attempt with an API key account that has a base URL, for a client that
\* sent chatgpt-account-id and a body with store false and an include list
C9_Witness ==
    \E q \in Reqs :
        /\ h[q].pc = "sent"
        /\ h[q].account.Type = APIKeyAccount
        /\ h[q].account.BaseURL = "https://alt.example"
        /\ req[q].tenant # NoHeader
        /\ req[q].body.kind = "object"
        /\ "include" \in DOMAIN req[q].body.obj
        /\ h[q].out.base = "https://alt.example"

\* C10: an attempt with a ChatGPT account goes to the ChatGPT upstream with
\* the leading /v1 taken off the path, with Authorization "Bearer <access
\* token>", the token being the stored one, with chatgpt-account-id set to the
\* account's AccountID when that is not empty, and with a JSON object body in
\* which store is false, include is ["reasoning.encrypted_content"] and the
\* other keys are the client's.
C10_ChatGPTRewrite ==
    \A q \in Reqs :
        (h[q].pc = "sent" /\ h[q].account.Type = ChatGPTAccount) =>
            LET a == h[q].account
                o == h[q].out
                b == req[q].body
            IN /\ o.base = "https://chatgpt.com/backend-api/codex"
               /\ req[q].path = <<"/v1">> \o o.path
               /\ o.query = req[q].query
               /\ o.auth = <<"Bearer ", a.AccessToken>>
               /\ a.AccessToken # <<>>
               /\ a.AccountID # "" => o.tenant = <<a.AccountID>>
               /\ b.kind = "object" =>
                     /\ o.body.kind = "object"
                     /\ DOMAIN o.body.obj = DOMAIN b.obj \cup {"store", "include"}
                     /\ o.body.obj["store"] = FALSE
                     /\ o.body.obj["include"] = <<"reasoning.encrypted_content">>
                     /\ \A k \in DOMAIN b.obj \ {"store", "include"} :
                            o.body.obj[k] = b.obj[k]

\* an attempt with a ChatGPT account of tenant "T", after a token exchange,
\* for a client body with store true
C10_Witness ==
    \E q \in Reqs :
        /\ h[q].pc = "sent"
        /\ h[q].account.Type = ChatGPTAccount
        /\ h[q].account.AccountID = "T"
        /\ h[q].lastNext.posts = 1
        /\ req[q].body = ObjectBody([store |-> TRUE])
        /\ h[q].out.path = <<"/responses">>
        /\ h[q].out.tenant = <<"T">>

\* the rewrite of a client body that is a JSON object, for an account of `type`
RewriteFor(type, b) ==
    [ kind |-> "object", fmt |-> "marshal",
      obj  |-> IF type = APIKeyAccount
               THEN [k \in (DOMAIN b.obj \ {"include"}) \cup {"store"} |->
                        IF k = "store" THEN TRUE ELSE b.obj[k]]
               ELSE [k \in DOMAIN b.obj \cup {"store", "include"} |->
                        IF k = "store" THEN FALSE
                        ELSE IF k = "include" THEN <<"reasoning.encrypted_content">>
                        ELSE b.obj[k]] ]

\* C11: once Next has returned a credential for a request whose body is not a
\* JSON object (empty, not JSON, null, an array), the attempt is sent with
\* the client's body unchanged, and the handler is not aborted; a body that
\* is a JSON object is sent rewritten.
C11_OtherBodiesForwarded ==
    \A q \in Reqs :
        /\ h[q].pc # "panic"
        /\ h[q].pc = "sent" =>
              IF req[q].body.kind = "object"
              THEN h[q].out.body = RewriteFor(h[q].account.Type, req[q].body)
              ELSE h[q].out.body = req[q].body

\* C12: every log entry of a request carries the body the client sent, and
\* the body in flight on an attempt is the client's body rewritten for the
\* kind of the account of this attempt (the client's body itself when it is
\* not a JSON object), whatever the earlier attempts sent.
C12_BodyPerAttempt ==
    \A q \in Reqs :
        /\ \A i \in 1..Len(LogsOf(q)) : LogsOf(q)[i].ReqBody = req[q].body
        /\ h[q].pc = "sent" =>
              h[q].out.body = (IF req[q].body.kind = "object"
                               THEN RewriteFor(h[q].account.Type, req[q].body)
                               ELSE req[q].body)

\* the second attempt of a request with a JSON object body is in flight with
\* an account of the other kind than the first
C12_Witness ==
    \E q \in Reqs :
        /\ h[q].pc = "sent"
        /\ Len(LogsOf(q)) = 1
        /\ req[q].body = ObjectBody([store |-> FALSE, include |-> <<"x">>, model |-> "m"])
        /\ LogsOf(q)[1].AccountID # h[q].account.ID
        /\ accounts[LogsOf(q)[1].AccountID].Type # h[q].account.Type

\* in this step the call of Next made by request q goes to the token endpoint
\* for the account at nx'.idx of its list
ExchangeStarts(q) ==
    /\ h'[q].pc = "exchange"
    /\ h[q].pc = "next" \/ nx'.idx # nx.idx

\* in this step the token endpoint answers the call of Next made by request q
\* with a token
ExchangeSucceeds(q) ==
    /\ h[q].pc = "exchange"
    /\ h'[q].pc # "exchange"
    /\ h'[q].lastNext.id = nx.snap[nx.idx].ID

\* C13: a call of Next goes to the token endpoint once for an account whose
\* token is due and, when the endpoint answers, stores a new access token;
\* an account that has been refreshed successfully is not taken to the token
\* endpoint again by a later call of Next.  Every instant of a run lies less
\* than 28 days after the start of the run, so an account with an access token
\* of generation 1 or more was refreshed less than 28 days ago.
C13_RefreshGate ==
    [][\A q \in Reqs :
          /\ ExchangeStarts(q) => Generation(nx'.snap[nx'.idx]) = 0
          /\ ExchangeSucceeds(q) =>
                /\ h'[q].lastNext.posts = nx.posts + 1
                /\ accounts'[nx.snap[nx.idx].ID].AccessToken # nx.snap[nx.idx].AccessToken
                /\ accounts'[nx.snap[nx.idx].ID].AccessToken # <<>>
    ]_vars

\* C14: Next goes to the token endpoint only for a ChatGPT account whose
\* token_expires_at is not more than a minute ahead; a call of Next that
\* returns without a successful exchange leaves the accounts table as it is,
\* and the account it returns is the row it listed.
C14_RefreshNoOp ==
    [][\A q \in Reqs :
          /\ ExchangeStarts(q) =>
                /\ nx'.snap[nx'.idx].Type = ChatGPTAccount
                /\ nx'.snap[nx'.idx].TokenExpiresAt <= now + Minute
          /\ (NextReturns(q) /\ ~ExchangeSucceeds(q)) =>
                /\ accounts' = accounts
                /\ h'[q].lastNext.posts = (IF h[q].pc = "exchange" THEN nx.posts + 1 ELSE 0)
                /\ h'[q].pc = "sent" =>
                      \E i \in 1..Len(h'[q].lastNext.snap) :
                          h'[q].account = h'[q].lastNext.snap[i]
          /\ (h[q].pc = "next" /\ h'[q].pc = "exchange") => accounts' = accounts
    ]_vars

\* Next returned, without a token exchange, an API key account, and to another
\* request a ChatGPT account whose token_expires_at is two minutes ahead
C14_Witness ==
    \E p, q \in Reqs :
        /\ h[p].pc = "sent" /\ h[p].account.Type = APIKeyAccount
        /\ h[p].lastNext.posts = 0
        /\ h[q].pc = "sent" /\ h[q].account.Type = ChatGPTAccount
        /\ h[q].lastNext.posts = 0
        /\ h[q].account.TokenExpiresAt = h[q].lastNext.now + 2 * Minute

\* the positions after i, in the list of the running call of Next, of the
\* accounts that are not held out by exhaustion
CandidatesAfter(i) ==
    { j \in (i + 1)..Len(nx.snap) :
        ~(nx.snap[j].Exhausted /\ nx.now < nx.snap[j].ResetAt) }

\* C15: when the token exchange for an account fails inside Next, the
\* accounts table is left as it is (the account is not exhausted, its tokens
\* and timestamps are unchanged) and Next goes on with the first later
\* account of its list that is not held out: it returns it, or exchanges its
\* token first when that is due; with no such account Next fails.
C15_RefreshFailureSkips ==
    [][\A q \in Reqs :
          (h[q].pc = "exchange" /\ h'[q] # h[q] /\ ~ExchangeSucceeds(q)) =>
             /\ accounts' = accounts
             /\ IF CandidatesAfter(nx.idx) = {}
                THEN /\ h'[q].lastNext.err = "no accounts available"
                     /\ h'[q].lastNext.failed = nx.failed \cup {nx.snap[nx.idx].ID}
                ELSE LET j == CHOOSE k \in CandidatesAfter(nx.idx) :
                                 \A l \in CandidatesAfter(nx.idx) : k <= l
                         a == nx.snap[j]
                     IN /\ nx.snap[nx.idx].Priority <= a.Priority
                        /\ IF a.Type = ChatGPTAccount /\ a.TokenExpiresAt <= now + Minute
                           THEN /\ h'[q].pc = "exchange"
                                /\ nx'.idx = j
                                /\ nx'.failed = nx.failed \cup {nx.snap[nx.idx].ID}
                           ELSE /\ h'[q].lastNext.err = ""
                                /\ h'[q].lastNext.id = a.ID
                                /\ h'[q].lastNext.failed = nx.failed \cup {nx.snap[nx.idx].ID}
    ]_vars

\* after a failed exchange for the account of smaller priority, whose row is
\* unchanged, Next returned the other account
C15_Witness ==
    \E q \in Reqs :
        LET r == h[q].lastNext IN
        /\ h[q].pc = "sent"
        /\ Len(r.snap) = 2
        /\ r.failed = {r.snap[1].ID}
        /\ r.id = r.snap[2].ID
        /\ r.snap[1].Priority < r.snap[2].Priority
        /\ ScanRow(accounts[r.snap[1].ID]) = r.snap[1]
        /\ ~accounts[r.snap[1].ID].Exhausted

\* what a successful exchange for the listed row `old`, answered with `reply`,
\* stores: the new access token, and the new refresh token when the answer
\* carries one
TokensStored(row, old, reply) ==
    /\ row.AccessToken = <<"at", old.ID, Generation(old) + 1>>
    /\ row.RefreshToken = (IF reply.rotate THEN <<"rt", old.ID, Generation(old) + 1>>
                           ELSE old.RefreshToken)

\* the token fields of account id are not the same after the step
TokensChange(id) ==
    \/ accounts'[id].AccessToken # accounts[id].AccessToken
    \/ accounts'[id].RefreshToken # accounts[id].RefreshToken
    \/ accounts'[id].TokenExpiresAt # accounts[id].TokenExpiresAt

\* The refresh update without its timestamp: a successful exchange stores the
\* endpoint's access token, and its refresh token exactly when it gave one,
\* and the token fields change in no other step and never one without the
\* other.
RefreshStoresTokens ==
    [][/\ \A q \in Reqs :
             ExchangeSucceeds(q) =>
                 TokensStored(accounts'[nx.snap[nx.idx].ID], nx.snap[nx.idx], h'[q].lastNext.reply)
       /\ \A id \in DOMAIN accounts :
             TokensChange(id) =>
                 \E q \in Reqs : ExchangeSucceeds(q) /\ nx.snap[nx.idx].ID = id
    ]_vars

\* C16: a successful exchange stores the endpoint's access token, and its
\* refresh token exactly when it gave one, in one step; the token fields
\* change in no other step; and token_expires_at after the exchange is not
\* earlier than before.
C16_RefreshUpdate ==
    [][/\ \A q \in Reqs :
             ExchangeSucceeds(q) =>
                 /\ TokensStored(accounts'[nx.snap[nx.idx].ID], nx.snap[nx.idx],
                                 h'[q].lastNext.reply)
                 /\ accounts'[nx.snap[nx.idx].ID].TokenExpiresAt
                       >= accounts[nx.snap[nx.idx].ID].TokenExpiresAt
       /\ \A id \in DOMAIN accounts :
             TokensChange(id) =>
                 \E q \in Reqs : ExchangeSucceeds(q) /\ nx.snap[nx.idx].ID = id
    ]_vars

\* C17: two requests never have an upstream call in flight with the same
\* account at the same time, that is, never were both handed the account by
\* Next and are both spending it before either has seen its answer and
\* marked it exhausted.
C17_NoDoubleSpend ==
    \A p, q \in Reqs :
        (p # q /\ h[p].pc = "sent" /\ h[q].pc = "sent") =>
            h[p].account.ID # h[q].account.ID

\* the call of Next that gave request p the account of its running attempt
\* exchanged the refresh token of account id: the account it returned carries
\* another access token than the row it had listed
Exchanged(p, id) ==
    /\ h[p].pc = "sent"
    /\ h[p].account.ID = id
    /\ \E i \in 1..Len(h[p].lastNext.snap) :
          /\ h[p].lastNext.snap[i].ID = id
          /\ h[p].lastNext.snap[i].AccessToken # h[p].account.AccessToken

\* at most one call of Next is waiting for the token endpoint, and it holds
\* Scheduler.mu
OneExchangeInFlight ==
    /\ Cardinality({q \in Reqs : h[q].pc = "exchange"}) <= 1
    /\ \A q \in Reqs : h[q].pc = "exchange" => mu = q

\* C18: at most one token exchange is in flight, and of two requests that
\* call Next concurrently one at most goes to the token endpoint for an
\* account: when request p, which started after q, has exchanged the token of
\* an account and is still in flight, and q has been waiting to enter its
\* first call of Next all the while, then q's call does not go to the token
\* endpoint for that account.
C18_OneExchange ==
    [][/\ OneExchangeInFlight'
       /\ \A p, q \in Reqs :
            (/\ q < p
             /\ h[q].pc = "next" /\ h[q].attempts = 0
             /\ h[p].attempts = 0
             /\ ExchangeStarts(q))
            => ~Exchanged(p, nx'.snap[nx'.idx].ID)
    ]_vars

\* in this step a pass of the Reactivator lists the accounts
PassStarts == rq = <<>> /\ rq' # <<>>

\* the accounts the pass that starts in this step is going to reactivate
PassIds == {rq'[i] : i \in 1..Len(rq')}

\* C19: a pass of the Reactivator reactivates the accounts that are exhausted
\* with now >= reset_at when it lists them, the boundary now = reset_at
\* included, and no other account; reactivating an account clears its
\* exhaustion and changes nothing else.
C19_ReactivatorPass ==
    [][/\ PassStarts =>
            \A id \in DOMAIN accounts :
                id \in PassIds <=> (accounts[id].Exhausted /\ now >= accounts[id].ResetAt)
       /\ (rq # <<>> /\ rq' = Tail(rq)) =>
            /\ ~accounts'[Head(rq)].Exhausted
            /\ \A id \in DOMAIN accounts : id # Head(rq) => accounts'[id] = accounts[id]
            /\ [accounts'[Head(rq)] EXCEPT !.Exhausted = FALSE, !.ResetAt = ZeroTime]
                 = [accounts[Head(rq)] EXCEPT !.Exhausted = FALSE, !.ResetAt = ZeroTime]
    ]_vars

\* The pass with the comparison of the code, now after reset_at: holds
ReactivatorPassStrict ==
    [][PassStarts =>
            \A id \in DOMAIN accounts :
                id \in PassIds <=> (accounts[id].Exhausted /\ now > accounts[id].ResetAt)
    ]_vars

\* C20: an account that is exhausted with reset_at = T is in the end
\* available again, unless it is marked exhausted again (with a later
\* reset_at): the clock goes past T and a pass of the Reactivator clears it.
\* T ranges over the instants the clock of a run goes past.
C20_EventuallyAvailable ==
    \A id \in 1..MaxAccounts : \A T \in 1..(MaxTime - 1) :
        (id \in DOMAIN accounts /\ accounts[id].Exhausted /\ accounts[id].ResetAt = T)
        ~> (id \in DOMAIN accounts /\ (~accounts[id].Exhausted \/ accounts[id].ResetAt > T))

\* a static-key account that answered 429 is available again after its
\* reset_at has gone by: among the steps of the model Reactivate alone clears
\* the exhaustion of such an account
C20_Witness ==
    \E id \in DOMAIN accounts :
        /\ accounts[id].Type = APIKeyAccount
        /\ ~accounts[id].Exhausted
        /\ \E i \in 1..Len(logs) :
              logs[i].AccountID = id /\ logs[i].Status = StatusTooManyRequests
        /\ rq = <<>>

\* C21: once the ctx of the Reactivator is done the Reactivator returns in
\* the end; from the moment ctx is done its pass reactivates no account, and
\* once the Reactivator has returned it has no pass running and starts none.
C21_ReactivatorTerminates ==
    /\ ra.done ~> ra.returned
    /\ [][/\ (ra.done /\ rq' # rq) => accounts' = accounts
          /\ ra.returned => (ra'.returned /\ rq = <<>> /\ rq' = <<>>)
         ]_vars

\* the Reactivator has returned and leaves an account exhausted whose
\* reset_at has gone by
C21_Witness ==
    /\ ra.returned
    /\ \E id \in DOMAIN accounts : accounts[id].Exhausted /\ now > accounts[id].ResetAt

\* C22: the Reactivator takes no part in Scheduler.mu.  Whoever holds mu, a
\* pass starts as soon as an account is due and a running pass makes its next
\* call; a request waiting to enter Next enters as soon as mu is free,
\* whether a pass is running or not; and no step of a pass changes mu.
C22_ReactivatorWithoutMutex ==
    /\ [](/\ (rq = <<>> /\ \E id \in DOMAIN accounts : ReactivationDue(accounts[id], now))
             => ENABLED ReactivateList
          /\ rq # <<>> => ENABLED ReactivateOne
          /\ \A q \in Reqs : (h[q].pc = "next" /\ mu = NoHolder) => ENABLED NextEnter(q))
    /\ [][rq' # rq => mu' = mu]_vars

\* a pass is running while a request holds mu inside Next, waiting for the
\* token endpoint
C22_Witness ==
    /\ rq # <<>>
    /\ \E q \in Reqs : h[q].pc = "exchange" /\ mu = q

\* the uniqueness key of an account: the secret of a static key, the refresh
\* token of an interactive login
KeyOf(a) == IF a.Type = APIKeyAccount THEN a.APIKey ELSE a.RefreshToken

\* the pool holds an account of kind `type` with the uniqueness key `secret`
Holds(accts, type, secret) ==
    \E id \in DOMAIN accts : accts[id].Type = type /\ KeyOf(accts[id]) = secret

\* in this step an add of caller c returns ErrDuplicate
AddFails(c) == adm'[c].pc = "duplicate" /\ adm'[c] # adm[c]

\* in this step an add of caller c passes its SELECT
AddPasses(c) == adm'[c].pc = "insert" /\ adm[c].pc # "insert"

\* in this step an add of caller c inserts and returns the new account
AddSucceeds(c) == adm[c].pc = "insert" /\ adm'[c].pc # "insert"

\* C23: an add fails with the duplicate error exactly when the pool holds an
\* account of its kind with its secret, and then changes nothing; otherwise
\* it inserts one account of its kind with its secret.  So of adds with one
\* secret made one after the other the first succeeds and the later ones
\* fail.
C23_DuplicateAdds ==
    [][\A c \in Admins :
          /\ AddFails(c) => /\ Holds(accounts, adm'[c].type, adm'[c].secret)
                            /\ accounts' = accounts
          /\ AddPasses(c) => ~Holds(accounts, adm'[c].type, adm'[c].secret)
          /\ AddSucceeds(c) =>
                /\ Holds(accounts', adm[c].type, adm[c].secret)
                /\ DOMAIN accounts' = DOMAIN accounts \cup {seq'}
                /\ seq' \notin DOMAIN accounts
                /\ \A id \in DOMAIN accounts : accounts'[id] = accounts[id]
    ]_vars

\* The adds as the code decides them: the duplicate error is returned exactly
\* when some account, of whatever kind, has the secret in the column the add
\* compares (holds)
DuplicateByColumn ==
    [][\A c \in Admins :
          /\ AddFails(c) =>
                \E id \in DOMAIN accounts :
                    IF adm'[c].type = APIKeyAccount
                    THEN accounts[id].APIKey = adm'[c].secret
                    ELSE accounts[id].RefreshToken = adm'[c].secret
          /\ AddPasses(c) => ~Holds(accounts, adm'[c].type, adm'[c].secret)
    ]_vars

\* C24: no two static-key accounts of the pool have the same secret and no
\* two interactive-login accounts the same refresh token.
C24_UniqueKeys ==
    \A i, j \in DOMAIN accounts :
        (i # j /\ accounts[i].Type = accounts[j].Type)
        => KeyOf(accounts[i]) # KeyOf(accounts[j])

\* C27: the kind stored under an id does not change as long as the id exists.
C27_KindFixed ==
    [][\A id \in DOMAIN accounts \cap DOMAIN accounts' :
          accounts'[id].Type = accounts[id].Type]_vars

\* C25: on every state of the accounts table, for every id, in the table or
\* not, and every instant T, Reactivate applied twice gives the table that
\* Reactivate applied once gives, and so does MarkExhausted with T.
C25_Idempotent ==
    \A id \in 1..MaxSeq :
        /\ Reactivate(Reactivate(accounts, id), id) = Reactivate(accounts, id)
        /\ \A T \in ZeroTime..(MaxTime + Hour) :
              MarkExhausted(MarkExhausted(accounts, id, T), id, T)
                 = MarkExhausted(accounts, id, T)

\* a table with an account that MarkExhausted has marked and one that is
\* available, on which both operations change something when applied once
C25_Witness ==
    \E i, j \in DOMAIN accounts :
        /\ accounts[i].Exhausted /\ accounts[i].ResetAt = now + Hour
        /\ ~accounts[j].Exhausted
        /\ Reactivate(accounts, i) # accounts
        /\ MarkExhausted(accounts, j, now + Hour) # accounts

\* C26: every step that writes a row and leaves it exhausted leaves it with a
\* reset_at later than the instant of the write.
C26_ExhaustedHasFutureReset ==
    [][\A id \in DOMAIN accounts \cap DOMAIN accounts' :
          (accounts'[id] # accounts[id] /\ accounts'[id].Exhausted)
          => accounts'[id].ResetAt > now]_vars

\* in this step the handler of request q marks account id after a 429
Marks429(q, id) ==
    /\ h[q].pc = "sent" /\ h[q].account.ID = id
    /\ Len(logs') = Len(logs) + 1
    /\ logs'[Len(logs')].AccountID = id
    /\ logs'[Len(logs')].Status = StatusTooManyRequests

\* in this step the Reactivator calls Reactivate for account id
Reactivates(id) == rq # <<>> /\ Head(rq) = id /\ rq' = Tail(rq)

\* The writes of MarkExhausted: the account is left exhausted with
\* reset_at = now + time.Hour (holds)
MarkSetsFutureReset ==
    [][\A q \in Reqs : \A id \in DOMAIN accounts :
          Marks429(q, id) => /\ accounts'[id].Exhausted
                             /\ accounts'[id].ResetAt = now + Hour
                             /\ accounts'[id].ResetAt > now]_vars

\* C28: the exhausted flag of an account goes from false to true only in the
\* step of a handler that got a 429 from that account, and from true to
\* false only in a step of the Reactivator for that account, taken with
\* now >= reset_at.
C28_FlagTransitions ==
    [][\A id \in DOMAIN accounts \cap DOMAIN accounts' :
          /\ (~accounts[id].Exhausted /\ accounts'[id].Exhausted)
                => \E q \in Reqs : Marks429(q, id)
          /\ (accounts[id].Exhausted /\ ~accounts'[id].Exhausted)
                => (Reactivates(id) /\ now >= accounts[id].ResetAt)
    ]_vars

\* The flag changes in steps of the handler after a 429, of the Reactivator
\* and of no other component (violated by the row update of a refresh)
FlagWriters ==
    [][\A id \in DOMAIN accounts \cap DOMAIN accounts' :
          /\ (~accounts[id].Exhausted /\ accounts'[id].Exhausted)
                => \E q \in Reqs : Marks429(q, id)
          /\ (accounts[id].Exhausted /\ ~accounts'[id].Exhausted)
                => Reactivates(id)
    ]_vars

\* C29: a request whose call of Next fails because the listing of the
\* accounts failed is answered 500, and one whose call of Next finds no
\* usable account is answered 503.
C29_ListFailure500 ==
    [][\A q \in Reqs :
          /\ (NextReturns(q) /\ h'[q].lastNext.err = "list failed")
                => resp'[q] = ProxyError(500)
          /\ (NextReturns(q) /\ h'[q].lastNext.err = "no accounts available")
                => resp'[q] = ProxyError(StatusServiceUnavailable)
    ]_vars

\* Whatever makes Next fail, the request is answered 503 (holds)
NextFailureAlways503 ==
    [][\A q \in Reqs :
          (NextReturns(q) /\ h'[q].lastNext.err # "")
             => resp'[q] = ProxyError(StatusServiceUnavailable)
    ]_vars

\* C30: the accounts a call of Next listed are in ascending id order within
\* one priority, and the account Next returned has the smallest id of the
\* usable accounts of its priority.
C30_TiesById ==
    \A q \in Reqs :
        LET r == h[q].lastNext
            n == Len(r.snap)
        IN r.err = "" =>
             /\ \A i, j \in 1..n :
                    (i < j /\ r.snap[i].Priority = r.snap[j].Priority)
                    => r.snap[i].ID < r.snap[j].ID
             /\ \A i, j \in 1..n :
                    (r.snap[i].ID = r.id /\ Usable(r.snap[j], r)
                     /\ r.snap[j].Priority = r.snap[i].Priority)
                    => r.id <= r.snap[j].ID

\* The order Next relies on: ascending priority (holds)
ListedByPriority ==
    \A q \in Reqs :
        LET r == h[q].lastNext IN
        \A i, j \in 1..Len(r.snap) : i < j => r.snap[i].Priority <= r.snap[j].Priority

\* C31: the request log only grows, an entry keeps its id (its position) and
\* its content for good, and List(n, offset) answers at most n entries, newest
\* first with strictly descending ids, after skipping the offset newest
\* entries of the table it read.
C31_LogAppendOnly ==
    /\ [][\/ logs' = logs
          \/ /\ Len(logs') = Len(logs) + 1
             /\ SubSeq(logs', 1, Len(logs)) = logs]_vars
    /\ [](page.called =>
            LET rows == page.rows IN
            /\ Len(rows) <= page.n
            /\ \A k \in 1..Len(rows) :
                  /\ rows[k].ID = page.total - page.offset - k + 1
                  /\ rows[k].ID \in 1..Len(logs)
                  /\ rows[k].entry = logs[rows[k].ID]
            /\ \A k \in 1..(Len(rows) - 1) : rows[k].ID > rows[k + 1].ID
            /\ Len(rows) < page.n => Len(rows) = page.total - page.offset
                                     \/ (Len(rows) = 0 /\ page.total <= page.offset))

\* List has skipped an entry and has cut its answer at n
C31_Witness ==
    /\ page.called
    /\ page.n >= 1 /\ page.offset >= 1
    /\ Len(page.rows) = page.n
    /\ page.total > page.n + page.offset

\* a step of the call of Next made by request q
InNext(q) == h[q].pc \in {"next", "exchange"} /\ h'[q] # h[q]

\* C32: no step of a call of Next changes the exhausted flag or the reset_at
\* of a stored account.
C32_NextKeepsExhaustion ==
    [][\A q \in Reqs : InNext(q) =>
          \A id \in DOMAIN accounts :
              /\ accounts'[id].Exhausted = accounts[id].Exhausted
              /\ accounts'[id].ResetAt = accounts[id].ResetAt
    ]_vars

\* Two calls of Next that listed the same rows at the same instant and had no
\* failing refresh returned the same account (violated: the order of rows of
\* equal priority is not fixed)
SameListSameAccount ==
    \A p, q \in Reqs :
        LET r == h[p].lastNext
            s == h[q].lastNext
        IN (/\ r.err = "" /\ s.err = ""
            /\ r.failed = {} /\ s.failed = {}
            /\ r.now = s.now
            /\ {r.snap[i] : i \in 1..Len(r.snap)} = {s.snap[i] : i \in 1..Len(s.snap)})
           => r.id = s.id

\* the import that has just returned the account it created
Imports == adm'[1] # adm[1] /\ adm'[1].pc = "imported"

\* C33: an import creates one interactive account, with the refresh token and
\* the tenant of the file and the largest priority of the pool plus one; and
\* when the file had an access token and a last_refresh, no call of Next goes
\* to the token endpoint for the imported account (the model's clock stays
\* within the time the token is fresh).
C33_Import ==
    [][/\ Imports =>
            LET a == accounts'[adm'[1].id] IN
            /\ DOMAIN accounts' = DOMAIN accounts \cup {adm'[1].id}
            /\ adm'[1].id \notin DOMAIN accounts
            /\ a.Type = ChatGPTAccount
            /\ a.RefreshToken = adm'[1].file.refresh
            /\ a.AccountID = adm'[1].file.tenant
            /\ \A id \in DOMAIN accounts : a.Priority > accounts[id].Priority
            /\ \E id \in DOMAIN accounts \cup {0} :
                  a.Priority = (IF id = 0 THEN 0 ELSE accounts[id].Priority + 1)
       /\ \A q \in Reqs :
            (/\ adm[1].pc = "imported"
             /\ adm[1].file.access # <<>>
             /\ adm[1].file.last # ZeroTime
             /\ h[q].pc = "next" /\ h'[q].pc = "exchange")
            => nx'.snap[nx'.idx].ID # adm[1].id
    ]_vars

\* What an import creates, but for the tokens (holds)
ImportCreatesAccount ==
    [][Imports =>
            LET a == accounts'[adm'[1].id] IN
            /\ DOMAIN accounts' = DOMAIN accounts \cup {adm'[1].id}
            /\ adm'[1].id \notin DOMAIN accounts
            /\ a.Type = ChatGPTAccount
            /\ a.RefreshToken = adm'[1].file.refresh
            /\ a.AccountID = adm'[1].file.tenant
            /\ \A id \in DOMAIN accounts : a.Priority > accounts[id].Priority
            /\ \E id \in DOMAIN accounts \cup {0} :
                  a.Priority = (IF id = 0 THEN 0 ELSE accounts[id].Priority + 1)
    ]_vars

\* Whatever the file holds, the imported account has no access token and no
\* expiry, so its refresh is due (holds)
ImportDropsTokens ==
    [][Imports =>
            LET a == accounts'[adm'[1].id] IN
            /\ a.AccessToken = <<>>
            /\ a.TokenExpiresAt = ZeroTime
            /\ RefreshDue(a, now)
    ]_vars

\* C34: the Reactivator never clears an exhaustion whose reset_at is still
\* ahead: an account that is exhausted until after now when the Reactivator
\* calls Reactivate for it is still exhausted after the call.
C34_NoStaleReactivation ==
    [][\A id \in DOMAIN accounts :
          (Reactivates(id) /\ accounts[id].Exhausted /\ accounts[id].ResetAt > now)
          => accounts'[id].Exhausted
    ]_vars

\* Reactivate clears the account whatever its row says when the call lands
\* (holds)
ReactivateUnconditional ==
    [][\A id \in DOMAIN accounts : Reactivates(id) => ~accounts'[id].Exhausted]_vars

\* in this step the refresh made by the call of Next of request q writes the
\* row of account id
RefreshWrites(q, id) ==
    /\ h[q].pc = "exchange" /\ h'[q].pc # "exchange"
    /\ nx.snap[nx.idx].ID = id
    /\ accounts' # accounts

\* C35: the write of a token refresh made inside Next leaves the exhausted
\* flag, reset_at, the priority and the other fields that are not token
\* fields as they are in the store when the write lands, whatever was written
\* to the row since Next listed it; and it writes no other row.
C35_RefreshWritesTokensOnly ==
    [][\A q \in Reqs : \A id \in DOMAIN accounts :
          RefreshWrites(q, id) =>
             /\ accounts'[id].Exhausted = accounts[id].Exhausted
             /\ accounts'[id].ResetAt = accounts[id].ResetAt
             /\ accounts'[id].Priority = accounts[id].Priority
             /\ accounts'[id].Type = accounts[id].Type
             /\ accounts'[id].BaseURL = accounts[id].BaseURL
             /\ accounts'[id].AccountID = accounts[id].AccountID
             /\ \A o \in DOMAIN accounts : o # id => accounts'[o] = accounts[o]
    ]_vars

\* What the write of a refresh leaves in the store: the row Next listed, with
\* the new tokens (holds)
RefreshWritesSnapshot ==
    [][\A q \in Reqs : \A id \in DOMAIN accounts :
          RefreshWrites(q, id) =>
             /\ accounts'[id].Exhausted = nx.snap[nx.idx].Exhausted
             /\ accounts'[id].ResetAt = nx.snap[nx.idx].ResetAt
             /\ accounts'[id].Priority = nx.snap[nx.idx].Priority
             /\ \A o \in DOMAIN accounts : o # id => accounts'[o] = accounts[o]
    ]_vars

\* account id answered 429 to an earlier attempt of request q
Answered429(q, id) ==
    \E i \in 1..Len(logs) :
        logs[i].req = q /\ logs[i].AccountID = id /\ logs[i].Status = StatusTooManyRequests

\* C36: a call of Next made for a later attempt of a request never returns an
\* account that answered 429 to an earlier attempt of the same request.
C36_NoReselection ==
    [][\A q \in Reqs :
          (InNext(q) /\ h'[q].pc = "sent") => ~Answered429(q, h'[q].account.ID)
    ]_vars

\* Right after the 429 the account is exhausted for an hour, and the listing
\* of the next attempt holds it out unless the row was written in between
\* (holds)
MarkedBeforeRetry ==
    [][\A q \in Reqs : \A id \in DOMAIN accounts :
          Marks429(q, id) => HeldOut(accounts'[id], now)]_vars

\* account a of the list r.snap is exhausted in the store with a reset_at that
\* is not after the instant of the call, and has the smallest priority alone
OverdueFirst(a, r) ==
    /\ a.Exhausted /\ ~(a.ResetAt > r.now)
    /\ \A i \in 1..Len(r.snap) : r.snap[i].ID # a.ID => r.snap[i].Priority > a.Priority

\* C37: a call of Next that listed an account still flagged exhausted, with a
\* reset_at not after now and the smallest priority, returns that account
\* (unless its token refresh failed in this call), and no step of Next clears
\* the flag of such an account in the store.
C37_OverdueIsEligible ==
    [][\A q \in Reqs :
          /\ (NextReturns(q) /\ h'[q].lastNext.err # "list failed") =>
                LET r == h'[q].lastNext IN
                \A i \in 1..Len(r.snap) :
                    (OverdueFirst(r.snap[i], r) /\ r.snap[i].ID \notin r.failed)
                    => (r.err = "" /\ r.id = r.snap[i].ID)
          /\ InNext(q) =>
                \A id \in DOMAIN accounts :
                    (accounts[id].Exhausted /\ ~(accounts[id].ResetAt > now))
                    => accounts'[id].Exhausted
    ]_vars

\* Next has returned an account that is flagged exhausted, and the flag is
\* still set in the store
C37_Witness ==
    \E q \in Reqs :
        LET r == h[q].lastNext IN
        /\ h[q].pc = "sent" /\ r.err = ""
        /\ \E i \in 1..Len(r.snap) :
              /\ r.snap[i].ID = r.id
              /\ OverdueFirst(r.snap[i], r)
              /\ Len(r.snap) > 1
        /\ accounts[r.id].Exhausted

\* C38: the Authorization sent upstream in an attempt is "Bearer " and the
\* API key (static key account) or the access token (interactive account) of
\* the account Next returned for the attempt; two requests that differ in
\* their own Authorization only and are served by the same account send the
\* same upstream request.
C38_UpstreamAuthorization ==
    /\ \A q \in Reqs : h[q].pc = "sent" =>
          LET a == h[q].account IN
          /\ a.ID = h[q].lastNext.id
          /\ h[q].out.auth = <<"Bearer ", IF a.Type = APIKeyAccount THEN a.APIKey
                                           ELSE a.AccessToken>>
    /\ \A p, q \in Reqs :
          (/\ h[p].pc = "sent" /\ h[q].pc = "sent"
           /\ h[p].account = h[q].account
           /\ [req[p] EXCEPT !.auth = req[q].auth] = req[q])
          => h[p].out = h[q].out

\* two requests with different Authorization headers, one of them the key of
\* another account, are in flight with the same account
C38_Witness ==
    \E p, q \in Reqs :
        /\ h[p].pc = "sent" /\ h[q].pc = "sent"
        /\ h[p].account = h[q].account
        /\ req[p].auth = <<"Bearer ", <<"key", 1>>>>
        /\ req[q].auth = <<"Bearer ", <<"client">>>>
        /\ h[p].account.Type = ChatGPTAccount
        /\ h[p].out.auth = <<"Bearer ", h[p].account.AccessToken>>

\* C39: the mutex is free after every step in which a call of Next returns,
\* whatever the exit; it is held only by a request inside Next; and every
\* request that waits to enter Next gets the mutex, and every call of Next
\* returns.
C39_MutexReleased ==
    /\ [][\A q \in Reqs : NextReturns(q) => mu' = NoHolder]_vars
    /\ [](\A q \in Reqs : mu = q <=> h[q].pc = "exchange")
    /\ \A q \in Reqs : (h[q].pc = "next") ~> (h[q].pc # "next")
    /\ \A q \in Reqs : (h[q].pc = "exchange") ~> (h[q].pc # "exchange")

\* a request waits for the mutex while the call of Next of the other holds it
\* after a refresh that failed
C39_Witness ==
    \E p, q \in Reqs :
        /\ h[p].pc = "next"
        /\ mu = q /\ h[q].pc = "exchange"
        /\ nx.failed # {}

====
